---- MODULE Spec2Model ----
(***************************************************************************)
(* A model of scripts/postprocess.py: the caption merger (merge_captions), *)
(* the timestamp codec, the SRT parser and the transliteration selector.   *)
(*                                                                         *)
(* Texts are sequences of one-character strings.  Times handed to          *)
(* merge_captions are whole numbers of ticks (any numeric unit: the merger *)
(* only subtracts and compares them).                                      *)
(***************************************************************************)
EXTENDS Integers, Sequences, FiniteSets, TLC

VARIABLES
    \* merge_captions(segments, max_chars, max_gap)
    segments,      \* the argument list of segment records
    max_chars,     \* the argument max_chars
    max_gap,       \* the argument max_gap
    merged,        \* the local list `merged`
    current,       \* the local accumulator dict `current` (NoSeg before it exists)
    i,             \* the loop index of `for i in range(1, len(segments))`
    result,        \* the returned list (<<>> until the call returns)
    pc,            \* position in merge_captions: "begin", "loop", "done", or "idle"
    \* the timestamp codec
    seconds,       \* the argument of the formatters, a rational [whole, num, den]
    srt_text,      \* what format_srt_timestamp(seconds) returned
    vtt_text,      \* what format_vtt_timestamp(seconds) returned
    parsed,        \* what parse_srt_timestamp(srt_text) returned or raised
    tpc,           \* "start", "srt", "vtt", "parsed", or "idle"
    \* parse_srt_file(srt_path)
    doc_blocks,    \* the blocks the file at srt_path was written from
    content,       \* the file's text, as its sequence of lines
    blocks,        \* the local list `blocks`
    bidx,          \* how many blocks the loop has taken
    parsed_segments, \* the local list `segments` of parse_srt_file
    parse_result,  \* the returned list (<<>> until the call returns)
    ppc,           \* "read", "loop", "done", "raised", or "idle"
    \* transliterate_to_devanagari(text)
    input_text,    \* the argument `text`, a sequence of code points
    installed,     \* whether `import indic_transliteration` succeeds
    convert,       \* per scheme, what transliterate(text, scheme, DEVANAGARI) does
    scheme_idx,    \* how many schemes the loop has taken
    best_result,   \* the local best_result
    best_score,    \* the local best_score
    returned,      \* the returned text (<<>> until the call returns)
    xpc,           \* "import", "loop", "done", "raised", or "idle"
    \* main(), from the parse on, with the dicts it and its callees hold
    heap,          \* every dict made so far; a dict is named by its index here
    loaded,        \* what parse_srt_file returned at line 309, by value
    main_segments, \* main's list `segments`, as the names of its dicts
    args_merge_captions, \* args.merge_captions
    args_devanagari,     \* args.devanagari
    call_merged,   \* merge_captions' local list `merged`, as names
    call_current,  \* merge_captions' local `current`, a name (0: unbound)
    call_i,        \* how many segments merge_captions' scan has taken
    merged_segments, \* main's `merged_segments`, as names
    dev_seen,      \* the segments transliterate_segments read, by value
    dev_segments,  \* main's `dev_segments`, as names
    mpc            \* "parsed", "merge_loop", "dev", "done", or "idle"

mvars == <<segments, max_chars, max_gap, merged, current, i, result, pc>>
tvars == <<seconds, srt_text, vtt_text, parsed, tpc>>
pvars == <<doc_blocks, content, blocks, bidx, parsed_segments, parse_result, ppc>>
xvars == <<input_text, installed, convert, scheme_idx, best_result, best_score, returned, xpc>>

nvars == <<heap, loaded, main_segments, args_merge_captions, args_devanagari,
           call_merged, call_current, call_i, merged_segments, dev_seen,
           dev_segments, mpc>>

vars == <<mvars, tvars, pvars, xvars, nvars>>

----------------------------------------------------------------------------
(* Bounds and input sets                                                   *)

MaxSegs == 3

\* str.strip()/rstrip() with no argument remove whitespace.
Whitespace == {" ", "\n"}

\* the tuple passed to endswith
Terminals == {".", "?", "!"}

\* (start, end) pairs of input segments: gaps below, at and above max_gap,
\* and an end that goes backwards ((0,3) followed by (1,2)).
SegTimes == {<<0, 3>>, <<1, 2>>, <<4, 4>>}

SegTexts ==
    { <<" ", "b">>, <<"c", ".">>, <<"d", "?", " ">>, <<"e", "!">>, <<".", "f">>, <<>> }

\* a segment whose text alone is longer than the smaller max_chars
LongSeg == [start |-> 1, end |-> 2, text |-> <<"g", "h", "i", "j">>]

InputSegs ==
    { [start |-> t[1], end |-> t[2], text |-> x] : t \in SegTimes, x \in SegTexts }
      \cup { LongSeg }

\* (max_chars, max_gap) pairs the calls are made with
MergeParams == { <<5, 1>>, <<3, 0>> }

RECURSIVE SeqsUpTo(_, _)
SeqsUpTo(S, n) ==
    IF n = 0 THEN { <<>> }
    ELSE LET shorter == SeqsUpTo(S, n - 1)
         IN shorter \cup { Append(s, e) : s \in { q \in shorter : Len(q) = n - 1 }, e \in S }

NoSeg == [start |-> -1, end |-> -1, text |-> <<"#">>]

----------------------------------------------------------------------------
(* String helpers of merge_captions                                        *)

RECURSIVE LStrip(_)
LStrip(s) ==
    IF s # <<>> /\ Head(s) \in Whitespace THEN LStrip(Tail(s)) ELSE s

RECURSIVE RStrip(_)
RStrip(s) ==
    IF s # <<>> /\ s[Len(s)] \in Whitespace THEN RStrip(SubSeq(s, 1, Len(s) - 1)) ELSE s

Strip(s) == RStrip(LStrip(s))

EndsWithTerminal(s) == s # <<>> /\ s[Len(s)] \in Terminals

\* has_terminal = current['text'].rstrip().endswith(('.', '?', '!'))
has_terminal_only_dot(cur) == LET t == RStrip(cur.text) IN t # <<>> /\ t[Len(t)] = "."
has_terminal(cur) == EndsWithTerminal(RStrip(cur.text))

\* gap = seg['start'] - current['end']
gap(cur, seg) == seg.start - cur.end

\* combined_text = current['text'] + ' ' + text
combined_text_no_space(cur, text) == cur.text \o text
combined_text(cur, text) == cur.text \o <<" ">> \o text

\* should_merge
should_merge_strict(cur, seg, mc, mg) ==
    /\ ~has_terminal(cur)
    /\ gap(cur, seg) < mg
    /\ Len(combined_text(cur, Strip(seg.text))) <= mc
should_merge_incoming_length(cur, seg, mc, mg) ==
    /\ ~has_terminal(cur)
    /\ gap(cur, seg) <= mg
    /\ Len(Strip(seg.text)) <= mc
should_merge(cur, seg, mc, mg) ==
    /\ ~has_terminal(cur)
    /\ gap(cur, seg) <= mg
    /\ Len(combined_text(cur, Strip(seg.text))) <= mc

\* the accumulator seeded from a segment (lines 125-129 and 159-163)
SeedRaw(seg) == [start |-> seg.start, end |-> seg.end, text |-> seg.text]
Seed(seg) == [start |-> seg.start, end |-> seg.end, text |-> Strip(seg.text)]

\* the accumulator after merging seg into it (lines 154-155)
MergeIntoMaxEnd(cur, seg) ==
    [start |-> cur.start,
     end |-> IF seg.end > cur.end THEN seg.end ELSE cur.end,
     text |-> combined_text(cur, Strip(seg.text))]
MergeIntoUnstripped(cur, seg) ==
    [start |-> cur.start, end |-> seg.end, text |-> combined_text(cur, seg.text)]
MergeInto(cur, seg) ==
    [start |-> cur.start, end |-> seg.end, text |-> combined_text(cur, Strip(seg.text))]

\* lines 131-168 as a function: the scan from segs[k] on, with accumulator
\* cur and the list out, and the final flush
RECURSIVE MergeScan(_, _, _, _, _, _)
MergeScan(segs, k, cur, out, mc, mg) ==
    IF k > Len(segs) THEN Append(out, cur)
    ELSE IF should_merge(cur, segs[k], mc, mg)
         THEN MergeScan(segs, k + 1, MergeInto(cur, segs[k]), out, mc, mg)
         ELSE MergeScan(segs, k + 1, Seed(segs[k]), Append(out, cur), mc, mg)

\* merge_captions(segments, max_chars, max_gap) as a function of its arguments
merge_captions(segs, mc, mg) ==
    IF segs = <<>> THEN <<>> ELSE MergeScan(segs, 2, Seed(segs[1]), <<>>, mc, mg)

----------------------------------------------------------------------------
(* The timestamp codec                                                     *)
(*                                                                         *)
(* A seconds value is the rational whole + num/den with 0 <= num < den.    *)
(* On the grid num/FracDen with FracDen a power of two the float           *)
(* arithmetic of the formatters is exact, so the model computes what the   *)
(* code computes, ties of round() included; the decimal inputs are not     *)
(* ties, and there rounding the float and rounding the rational agree.     *)
(* A parsed time is a whole number of milliseconds.                        *)

FracDen == 2048

Wholes == {0, 59, 3599, 3661, 86399, 360000}

TimeInputs ==
    { [whole |-> w, num |-> k, den |-> FracDen] : w \in Wholes, k \in 0..(FracDen - 1) }
    \cup { [whole |-> 3661, num |-> 4567, den |-> 10000],
           [whole |-> 0, num |-> 9996, den |-> 10000] }

Digit == <<"0", "1", "2", "3", "4", "5", "6", "7", "8", "9">>

RECURSIVE Decimal(_)
Decimal(n) == IF n < 10 THEN <<Digit[n + 1]>> ELSE Append(Decimal(n \div 10), Digit[(n % 10) + 1])

RECURSIVE Zeros(_)
Zeros(k) == IF k <= 0 THEN <<>> ELSE <<"0">> \o Zeros(k - 1)

\* f"{n:0{width}d}" for n >= 0: at least width digits, zero-filled
ZeroPad(n, width) == Zeros(width - Len(Decimal(n))) \o Decimal(n)

\* round(a / b) for a >= 0, b > 0: Python 3 rounds a half to the even neighbour
RoundHalfEven(a, b) ==
    LET q == a \div b
        r == a % b
    IN IF 2 * r < b THEN q
       ELSE IF 2 * r > b THEN q + 1
       ELSE IF q % 2 = 0 THEN q ELSE q + 1

\* int(round((seconds - int(seconds)) * 1000))
Millis(sec) == RoundHalfEven(1000 * sec.num, sec.den)

\* format_srt_timestamp(seconds)
format_srt_timestamp(sec) ==
    LET h == sec.whole \div 3600
        m == (sec.whole % 3600) \div 60
        s == sec.whole % 60
        ms == Millis(sec)
    IN ZeroPad(h, 2) \o <<":">> \o ZeroPad(m, 2) \o <<":">> \o ZeroPad(s, 2)
         \o <<",">> \o ZeroPad(ms, 3)

\* format_vtt_timestamp(seconds)
format_vtt_timestamp(sec) ==
    LET h == sec.whole \div 3600
        m == (sec.whole % 3600) \div 60
        s == sec.whole % 60
        ms == Millis(sec)
    IN ZeroPad(h, 2) \o <<":">> \o ZeroPad(m, 2) \o <<":">> \o ZeroPad(s, 2)
         \o <<".">> \o ZeroPad(ms, 3)

\* str.split(sep): the pieces of s between the occurrences of sep
RECURSIVE Split(_, _)
Split(s, sep) ==
    IF \A j \in 1..Len(s) : s[j] # sep THEN <<s>>
    ELSE LET at == CHOOSE j \in 1..Len(s) : s[j] = sep /\ \A q \in 1..(j - 1) : s[q] # sep
         IN <<SubSeq(s, 1, at - 1)>> \o Split(SubSeq(s, at + 1, Len(s)), sep)

DigitValue(ch) == CHOOSE d \in 0..9 : Digit[d + 1] = ch

IsDigit(ch) == \E d \in 1..10 : Digit[d] = ch

RECURSIVE DigitsValue(_)
DigitsValue(ds) ==
    IF ds = <<>> THEN 0
    ELSE 10 * DigitsValue(SubSeq(ds, 1, Len(ds) - 1)) + DigitValue(ds[Len(ds)])

\* int(field) accepts an optional sign followed by one or more digits
IsIntLiteral(field) ==
    LET body == IF field # <<>> /\ field[1] \in {"+", "-"} THEN Tail(field) ELSE field
    IN body # <<>> /\ \A j \in 1..Len(body) : IsDigit(body[j])

IntOf(field) ==
    IF field[1] = "-" THEN 0 - DigitsValue(Tail(field))
    ELSE IF field[1] = "+" THEN DigitsValue(Tail(field))
    ELSE DigitsValue(field)

ValueError == [err |-> TRUE, ms |-> 0]

\* parse_srt_timestamp(ts): the time in milliseconds, or ValueError raised by
\* the two unpackings or by int()
parse_srt_timestamp_Lenient(ts) ==
    LET parts == Split(ts, ",") IN
    IF Len(parts) # 2 THEN [err |-> FALSE, ms |-> 0]
    ELSE LET fields == Split(parts[1], ":") IN
         IF Len(fields) # 3 \/ \E j \in 1..3 : ~IsIntLiteral(fields[j])
         THEN [err |-> FALSE, ms |-> 0]
         ELSE IF ~IsIntLiteral(parts[2]) THEN [err |-> FALSE, ms |-> 0]
         ELSE [err |-> FALSE,
               ms |-> (IntOf(fields[1]) * 3600 + IntOf(fields[2]) * 60 + IntOf(fields[3])) * 1000
                        + IntOf(parts[2])]
parse_srt_timestamp_NoMinutes(ts) ==
    LET parts == Split(ts, ",") IN
    IF Len(parts) # 2 THEN ValueError
    ELSE LET fields == Split(parts[1], ":") IN
         IF Len(fields) # 3 \/ \E j \in 1..3 : ~IsIntLiteral(fields[j]) THEN ValueError
         ELSE IF ~IsIntLiteral(parts[2]) THEN ValueError
         ELSE [err |-> FALSE,
               ms |-> (IntOf(fields[1]) * 3600 + IntOf(fields[3])) * 1000 + IntOf(parts[2])]
parse_srt_timestamp(ts) ==
    LET parts == Split(ts, ",") IN
    IF Len(parts) # 2 THEN ValueError
    ELSE LET fields == Split(parts[1], ":") IN
         IF Len(fields) # 3 \/ \E j \in 1..3 : ~IsIntLiteral(fields[j]) THEN ValueError
         ELSE IF ~IsIntLiteral(parts[2]) THEN ValueError
         ELSE [err |-> FALSE,
               ms |-> (IntOf(fields[1]) * 3600 + IntOf(fields[2]) * 60 + IntOf(fields[3])) * 1000
                        + IntOf(parts[2])]

NotParsed == [err |-> FALSE, ms |-> -1]

TimeStart ==
    /\ seconds \in TimeInputs
    /\ srt_text = <<>> /\ vtt_text = <<>> /\ parsed = NotParsed /\ tpc = "start"

TimeIdle ==
    /\ seconds = [whole |-> 0, num |-> 0, den |-> 1]
    /\ srt_text = <<>> /\ vtt_text = <<>> /\ parsed = NotParsed /\ tpc = "idle"

FormatSrt ==
    /\ tpc = "start"
    /\ srt_text' = format_srt_timestamp(seconds)
    /\ tpc' = "srt"
    /\ UNCHANGED <<seconds, vtt_text, parsed>>

FormatVtt ==
    /\ tpc = "srt"
    /\ vtt_text' = format_vtt_timestamp(seconds)
    /\ tpc' = "vtt"
    /\ UNCHANGED <<seconds, srt_text, parsed>>

ParseBack ==
    /\ tpc = "vtt"
    /\ parsed' = parse_srt_timestamp(srt_text)
    /\ tpc' = "parsed"
    /\ UNCHANGED <<seconds, srt_text, vtt_text>>

----------------------------------------------------------------------------
(* parse_srt_file                                                          *)
(*                                                                         *)
(* A text is the sequence of its lines (what split('\n') gives: the empty  *)
(* text is one empty line).  A line is [lead, words]: whether it starts    *)
(* with whitespace, and its words, the maximal runs of non-whitespace      *)
(* characters; trailing whitespace of a line is not modelled.              *)

MaxBlocks == 2

Line(ws) == [lead |-> FALSE, words |-> ws]
EmptyLine == [lead |-> FALSE, words |-> <<>>]
SpaceLine == [lead |-> TRUE, words |-> <<>>]

Arrow == <<"-", "-", ">">>

\* a well-formed comma-style token for a whole number of milliseconds
Ts(ms) == format_srt_timestamp([whole |-> ms \div 1000, num |-> ms % 1000, den |-> 1000])

TimingLine(a, b) == Line(<<a, Arrow, b>>)

\* the blocks documents are written from
DocBlocks ==
    { \* a well-formed block
      << Line(<<<<"1">>>>), TimingLine(Ts(0), Ts(1000)), Line(<<<<"H">>, <<"i">>>>) >>,
      \* a well-formed block of two text lines whose end token is not zero-padded
      << Line(<<<<"2">>>>), TimingLine(Ts(1200), <<"0", ":", "0", ":", "3", ",", "5">>),
         Line(<<<<"w">>>>), [lead |-> TRUE, words |-> <<<<"x">>>>] >>,
      \* two lines: no text
      << Line(<<<<"3">>>>), TimingLine(Ts(2000), Ts(3000)) >>,
      \* three lines of which the last is whitespace only
      << Line(<<<<"4">>>>), TimingLine(Ts(2000), Ts(3000)), SpaceLine >>,
      \* the second line has no arrow
      << Line(<<<<"5">>>>), Line(<<Ts(2000), <<"-", ">">>, Ts(3000)>>), Line(<<<<"y">>>>) >>,
      \* the second line starts with whitespace
      << Line(<<<<"6">>>>), [lead |-> TRUE, words |-> <<Ts(2000), Arrow, Ts(3000)>>],
         Line(<<<<"y">>>>) >>,
      \* the timing line has the shape, the start token has a period for the comma
      << Line(<<<<"7">>>>),
         TimingLine(format_vtt_timestamp([whole |-> 4, num |-> 0, den |-> 1]), Ts(5000)),
         Line(<<<<"z">>>>) >>,
      \* the timing line has the shape, the end token has a non-numeric field
      << Line(<<<<"8">>>>), TimingLine(Ts(4000), <<"0", "0", ":", "0", "x", ":", "0", "5", ",", "0", "0", "0">>),
         Line(<<<<"z">>>>) >> }

RECURSIVE Blanks(_)
Blanks(n) == IF n = 0 THEN <<>> ELSE <<EmptyLine>> \o Blanks(n - 1)

\* the blocks written one after the other, sep empty lines between two and
\* after the last
RECURSIVE WriteDoc(_, _)
WriteDoc(bs, sep) ==
    IF bs = <<>> THEN <<EmptyLine>>
    ELSE IF Len(bs) = 1 THEN Head(bs) \o Blanks(sep)
    ELSE Head(bs) \o Blanks(sep) \o WriteDoc(Tail(bs), sep)

IsBlank(line) == line.words = <<>>

\* str.strip() of a text: the blank lines at both ends go, and the leading
\* whitespace of the first line left; the empty text is one empty line
RECURSIVE DropLeadingBlank(_)
DropLeadingBlank(ls) ==
    IF ls # <<>> /\ IsBlank(Head(ls)) THEN DropLeadingBlank(Tail(ls)) ELSE ls

RECURSIVE DropTrailingBlank(_)
DropTrailingBlank(ls) ==
    IF ls # <<>> /\ IsBlank(ls[Len(ls)]) THEN DropTrailingBlank(SubSeq(ls, 1, Len(ls) - 1))
    ELSE ls

StripText(ls) ==
    LET kept == DropTrailingBlank(DropLeadingBlank(ls))
    IN IF kept = <<>> THEN <<EmptyLine>>
       ELSE <<[lead |-> FALSE, words |-> kept[1].words]>> \o Tail(kept)

\* re.split(r'\n\n+', text) of a stripped text: cut at every run of empty lines
RECURSIVE SplitBlocks(_)
SplitBlocks(ls) ==
    IF \A j \in 1..Len(ls) : ls[j] # EmptyLine THEN <<ls>>
    ELSE LET at == CHOOSE j \in 1..Len(ls) :
                     ls[j] = EmptyLine /\ \A q \in 1..(j - 1) : ls[q] # EmptyLine
             rest == SubSeq(ls, at + 1, Len(ls))
             RECURSIVE SkipEmpty(_)
             SkipEmpty(r) == IF r # <<>> /\ Head(r) = EmptyLine THEN SkipEmpty(Tail(r)) ELSE r
         IN <<SubSeq(ls, 1, at - 1)>> \o SplitBlocks(SkipEmpty(rest))

\* len(lines) < 3
TooFewLinesOffByOne(lines) == Len(lines) <= 3
TooFewLines(lines) == Len(lines) < 3

\* re.match(r'(\S+)\s+-->\s+(\S+)', timestamp_line)
TimingMatch(line) ==
    ~line.lead /\ Len(line.words) >= 3 /\ line.words[2] = Arrow

ParseStart ==
    /\ doc_blocks \in SeqsUpTo(DocBlocks, MaxBlocks)
    /\ \E sep \in 1..2, before \in 0..1 :
         content = Blanks(before) \o WriteDoc(doc_blocks, sep)
    /\ blocks = <<>>
    /\ bidx = 0
    /\ parsed_segments = <<>>
    /\ parse_result = <<>>
    /\ ppc = "read"

ParseIdle ==
    /\ doc_blocks = <<>> /\ content = <<>> /\ blocks = <<>> /\ bidx = 0
    /\ parsed_segments = <<>> /\ parse_result = <<>> /\ ppc = "idle"

\* lines 69-75: read the file, strip it, split it into blocks
ParseSplit ==
    /\ ppc = "read"
    /\ blocks' = SplitBlocks(StripText(content))
    /\ parsed_segments' = <<>>
    /\ bidx' = 0
    /\ ppc' = "loop"
    /\ UNCHANGED <<doc_blocks, content, parse_result>>

\* lines 77-101: one iteration of `for block in blocks`
ParseBlock ==
    /\ ppc = "loop"
    /\ bidx < Len(blocks)
    /\ bidx' = bidx + 1
    /\ LET lines == StripText(blocks[bidx + 1]) IN
         IF TooFewLines(lines)
         THEN UNCHANGED <<parsed_segments, ppc>>
         ELSE LET timestamp_line == lines[2]
                  text == SubSeq(lines, 3, Len(lines))
              IN IF ~TimingMatch(timestamp_line)
                 THEN UNCHANGED <<parsed_segments, ppc>>
                 ELSE LET start == parse_srt_timestamp(timestamp_line.words[1])
                          end == parse_srt_timestamp(timestamp_line.words[3])
                      IN IF start.err \/ end.err
                         THEN ppc' = "raised" /\ UNCHANGED parsed_segments
                         ELSE /\ parsed_segments' =
                                   Append(parsed_segments,
                                          [start |-> start.ms, end |-> end.ms, text |-> text])
                              /\ UNCHANGED ppc
    /\ UNCHANGED <<doc_blocks, content, blocks, parse_result>>

\* line 103
ParseReturn ==
    /\ ppc = "loop"
    /\ bidx >= Len(blocks)
    /\ parse_result' = parsed_segments
    /\ ppc' = "done"
    /\ UNCHANGED <<doc_blocks, content, blocks, bidx, parsed_segments>>

----------------------------------------------------------------------------
(* transliterate_to_devanagari                                             *)
(*                                                                         *)
(* Texts are sequences of code points.  The library is the environment:    *)
(* for the text at hand each scheme's conversion either raises or returns  *)
(* a text.                                                                 *)

\* the list `schemes`
schemes == <<"ITRANS", "HK", "IAST">>

\* 'ऀ' and 'ॿ'
DevanagariFirst == 2304
DevanagariLast == 2431

Raises == [raises |-> TRUE, out |-> <<>>]
Returns(t) == [raises |-> FALSE, out |-> t]

\* texts handed to the function: "ab", the empty text, one with a Devanagari letter
InputTexts == { <<97, 98>>, <<>>, <<2309, 97>> }

\* what a conversion may do: raise, or return a text with no, one or two
\* Devanagari characters (U+08FF and U+0980 lie just outside the block)
Conversions ==
    { Raises, Returns(<<97, 98>>), Returns(<<2303, 2432>>), Returns(<<2304, 97>>),
      Returns(<<2309, 2431>>), Returns(<<2325, 2366>>) }

\* sum(1 for c in result if 'ऀ' <= c <= 'ॿ')
devanagari_count(t) ==
    Cardinality({ j \in 1..Len(t) : DevanagariFirst <= t[j] /\ t[j] <= DevanagariLast })

\* lines 241-250, the body of the loop for one scheme: what the conversion
\* did, and the best (result, score) so far; gives the new best and whether
\* an exception leaves the loop
TrySchemeUncaught(c, best) ==
    IF c.raises THEN [result |-> best.result, score |-> best.score, raised |-> TRUE]
    ELSE IF devanagari_count(c.out) > best.score
         THEN [result |-> c.out, score |-> devanagari_count(c.out), raised |-> FALSE]
         ELSE [result |-> best.result, score |-> best.score, raised |-> FALSE]
TrySchemeLastWins(c, best) ==
    IF c.raises THEN [result |-> best.result, score |-> best.score, raised |-> FALSE]
    ELSE IF devanagari_count(c.out) >= best.score
         THEN [result |-> c.out, score |-> devanagari_count(c.out), raised |-> FALSE]
         ELSE [result |-> best.result, score |-> best.score, raised |-> FALSE]
TryScheme(c, best) ==
    IF c.raises THEN [result |-> best.result, score |-> best.score, raised |-> FALSE]
    ELSE IF devanagari_count(c.out) > best.score
         THEN [result |-> c.out, score |-> devanagari_count(c.out), raised |-> FALSE]
         ELSE [result |-> best.result, score |-> best.score, raised |-> FALSE]

TranslitStart ==
    /\ input_text \in InputTexts
    /\ installed \in BOOLEAN
    /\ convert \in [1..Len(schemes) -> Conversions]
    /\ scheme_idx = 0
    /\ best_result = <<>>
    /\ best_score = 0
    /\ returned = <<>>
    /\ xpc = "import"

TranslitIdle ==
    /\ input_text = <<>> /\ installed = FALSE /\ convert = <<>> /\ scheme_idx = 0
    /\ best_result = <<>> /\ best_score = 0 /\ returned = <<>> /\ xpc = "idle"

\* lines 222-238: the import, with its fallback, and the initial best
TranslitImport ==
    /\ xpc = "import"
    /\ IF ~installed
       THEN /\ returned' = input_text
            /\ xpc' = "done"
            /\ UNCHANGED <<best_result, best_score, scheme_idx>>
       ELSE /\ best_result' = input_text
            /\ best_score' = 0
            /\ scheme_idx' = 0
            /\ xpc' = "loop"
            /\ UNCHANGED returned
    /\ UNCHANGED <<input_text, installed, convert>>

\* lines 240-250: one iteration of `for scheme in schemes`
TranslitTry ==
    /\ xpc = "loop"
    /\ scheme_idx < Len(schemes)
    /\ LET got == TryScheme(convert[scheme_idx + 1],
                            [result |-> best_result, score |-> best_score])
       IN /\ best_result' = got.result
          /\ best_score' = got.score
          /\ xpc' = IF got.raised THEN "raised" ELSE "loop"
    /\ scheme_idx' = scheme_idx + 1
    /\ UNCHANGED <<input_text, installed, convert, returned>>

\* line 252
TranslitReturn ==
    /\ xpc = "loop"
    /\ scheme_idx >= Len(schemes)
    /\ returned' = best_result
    /\ xpc' = "done"
    /\ UNCHANGED <<input_text, installed, convert, scheme_idx, best_result, best_score>>

----------------------------------------------------------------------------
(* main: one parse feeding merge_captions and transliterate_segments       *)

\* how many segments the parsed file has at most
MaxMainSegs == 2

\* the defaults of merge_captions, which main calls it with
DefaultMaxChars == 140
DefaultMaxGap == 1

\* the texts parse_srt_file gives are stripped
MainTexts == { <<"b">>, <<"c", ".">>, <<>> }

MainSegs == { [start |-> t[1], end |-> t[2], text |-> x] : t \in SegTimes, x \in MainTexts }

\* the list whose k-th element is the dict named from + k
NamesFrom(from, n) == [k \in 1..n |-> from + k]

\* `current = segments[0]`: the accumulator is the input's own dict
AllocCurrentAlias(h, r) == [heap |-> h, ref |-> r]

\* lines 125-129 and 158-162: `current = {...}` makes a new dict from the
\* fields of the dict named r
AllocCurrent(h, r) == [heap |-> Append(h, Seed(h[r])), ref |-> Len(h) + 1]

\* a text with every character converted
Converted(t) == [k \in 1..Len(t) |-> "D"]

\* what transliterate_to_devanagari(t) can return: t itself (no library, or
\* no scheme scored above 0) or a conversion of it
TransliterationOutcomes(t) == { t, Converted(t) }

\* line 309: the parse has returned
MainStart ==
    /\ loaded \in SeqsUpTo(MainSegs, MaxMainSegs)
    /\ heap = loaded
    /\ main_segments = NamesFrom(0, Len(loaded))
    /\ args_merge_captions \in BOOLEAN
    /\ args_devanagari \in BOOLEAN
    /\ call_merged = <<>>
    /\ call_current = 0
    /\ call_i = 0
    /\ merged_segments = <<>>
    /\ dev_seen = <<>>
    /\ dev_segments = <<>>
    /\ mpc = "parsed"

MainIdle ==
    /\ heap = <<>> /\ loaded = <<>> /\ main_segments = <<>>
    /\ args_merge_captions = FALSE /\ args_devanagari = FALSE
    /\ call_merged = <<>> /\ call_current = 0 /\ call_i = 0
    /\ merged_segments = <<>> /\ dev_seen = <<>> /\ dev_segments = <<>>
    /\ mpc = "idle"

\* lines 312-315 with 121-129: the call merge_captions(segments), up to the
\* empty-input return or the seed of the accumulator
MainMergeCall ==
    /\ mpc = "parsed"
    /\ args_merge_captions
    /\ IF main_segments = <<>>
       THEN /\ merged_segments' = <<>>
            /\ mpc' = "dev"
            /\ UNCHANGED <<heap, call_merged, call_current, call_i>>
       ELSE /\ LET a == AllocCurrent(heap, main_segments[1])
               IN heap' = a.heap /\ call_current' = a.ref
            /\ call_merged' = <<>>
            /\ call_i' = 1
            /\ mpc' = "merge_loop"
            /\ UNCHANGED merged_segments
    /\ UNCHANGED <<loaded, main_segments, args_merge_captions, args_devanagari,
                   dev_seen, dev_segments>>

\* line 312: --merge-captions was not given
MainMergeSkip ==
    /\ mpc = "parsed"
    /\ ~args_merge_captions
    /\ mpc' = "dev"
    /\ UNCHANGED <<heap, loaded, main_segments, args_merge_captions, args_devanagari,
                   call_merged, call_current, call_i, merged_segments, dev_seen,
                   dev_segments>>

\* lines 131-163 inside the call: a merge assigns into the dict `current`
\* names; a non-merge appends that name and makes a new dict
MainMergeIter ==
    /\ mpc = "merge_loop"
    /\ call_i < Len(main_segments)
    /\ LET r == main_segments[call_i + 1]
           seg == heap[r]
       IN IF should_merge(heap[call_current], seg, DefaultMaxChars, DefaultMaxGap)
          THEN /\ heap' = [heap EXCEPT ![call_current] = MergeInto(@, seg)]
               /\ UNCHANGED <<call_merged, call_current>>
          ELSE /\ call_merged' = Append(call_merged, call_current)
               /\ LET a == AllocCurrent(heap, r)
                  IN heap' = a.heap /\ call_current' = a.ref
    /\ call_i' = call_i + 1
    /\ UNCHANGED <<loaded, main_segments, args_merge_captions, args_devanagari,
                   merged_segments, dev_seen, dev_segments, mpc>>

\* lines 165-168 and 315: the final flush, the return, and main's binding
MainMergeReturn ==
    /\ mpc = "merge_loop"
    /\ call_i >= Len(main_segments)
    /\ call_merged' = Append(call_merged, call_current)
    /\ merged_segments' = Append(call_merged, call_current)
    /\ mpc' = "dev"
    /\ UNCHANGED <<heap, loaded, main_segments, args_merge_captions, args_devanagari,
                   call_current, call_i, dev_seen, dev_segments>>

\* lines 325-327 with 264-270: transliterate_segments(segments) reads each
\* dict of main's list and makes a new dict {**seg, 'text': ...} for it
MainTransliterate ==
    /\ mpc = "dev"
    /\ args_devanagari
    /\ LET n == Len(main_segments)
           seen == [k \in 1..n |-> heap[main_segments[k]]]
       IN /\ dev_seen' = seen
          /\ \E out \in [1..n -> UNION { TransliterationOutcomes(seen[k].text) : k \in 1..n }] :
               /\ \A k \in 1..n : out[k] \in TransliterationOutcomes(seen[k].text)
               /\ heap' = heap \o [k \in 1..n |-> [start |-> seen[k].start,
                                                   end |-> seen[k].end,
                                                   text |-> out[k]]]
          /\ dev_segments' = NamesFrom(Len(heap), n)
    /\ mpc' = "done"
    /\ UNCHANGED <<loaded, main_segments, args_merge_captions, args_devanagari,
                   call_merged, call_current, call_i, merged_segments>>

\* line 325: --devanagari was not given
MainDevSkip ==
    /\ mpc = "dev"
    /\ ~args_devanagari
    /\ mpc' = "done"
    /\ UNCHANGED <<heap, loaded, main_segments, args_merge_captions, args_devanagari,
                   call_merged, call_current, call_i, merged_segments, dev_seen,
                   dev_segments>>

----------------------------------------------------------------------------
(* merge_captions as a state machine                                       *)

MergeStart ==
    /\ segments \in SeqsUpTo(InputSegs, MaxSegs)
    /\ \E p \in MergeParams : max_chars = p[1] /\ max_gap = p[2]
    /\ merged = <<>>
    /\ current = NoSeg
    /\ i = 0
    /\ result = <<>>
    /\ pc = "begin"

\* lines 121-129: the empty-input return, else the seed of the accumulator
MergeBegin ==
    /\ pc = "begin"
    /\ IF segments = <<>>
       THEN /\ pc' = "done"
            /\ result' = <<>>
            /\ UNCHANGED <<merged, current, i>>
       ELSE /\ merged' = <<>>
            /\ current' = Seed(segments[1])
            /\ i' = 1
            /\ pc' = "loop"
            /\ UNCHANGED result
    /\ UNCHANGED <<segments, max_chars, max_gap>>

\* lines 131-163: one iteration of the forward scan. The Python index i
\* (from 1) names segments[i], which is element i + 1 here.
MergeIter ==
    /\ pc = "loop"
    /\ i < Len(segments)
    /\ LET seg == segments[i + 1] IN
         IF should_merge(current, seg, max_chars, max_gap)
         THEN /\ current' = MergeInto(current, seg)
              /\ UNCHANGED merged
         ELSE /\ merged' = Append(merged, current)
              /\ current' = Seed(seg)
    /\ i' = i + 1
    /\ UNCHANGED <<segments, max_chars, max_gap, result, pc>>

\* lines 165-168: the final flush and the return
MergeFinish ==
    /\ pc = "loop"
    /\ i >= Len(segments)
    /\ merged' = Append(merged, current)
    /\ result' = Append(merged, current)
    /\ pc' = "done"
    /\ UNCHANGED <<segments, max_chars, max_gap, current, i>>

MergeIdle ==
    /\ segments = <<>> /\ max_chars = 0 /\ max_gap = 0 /\ merged = <<>>
    /\ current = NoSeg /\ i = 0 /\ result = <<>> /\ pc = "idle"

MergeInit == MergeStart /\ TimeIdle /\ ParseIdle /\ TranslitIdle /\ MainIdle

MergeNext ==
    \/ MergeBegin /\ UNCHANGED <<tvars, pvars, xvars, nvars>>
    \/ MergeIter /\ UNCHANGED <<tvars, pvars, xvars, nvars>>
    \/ MergeFinish /\ UNCHANGED <<tvars, pvars, xvars, nvars>>

SpecMerge == MergeInit /\ [][MergeNext]_vars

----------------------------------------------------------------------------
(* Runs: how an output list divides an input list                          *)

\* the ways to cut n consecutive items into consecutive non-empty runs,
\* each given as the sequence of run lengths
RECURSIVE Compositions(_)
Compositions(n) ==
    IF n = 0 THEN { <<>> }
    ELSE UNION { { <<k>> \o c : c \in Compositions(n - k) } : k \in 1..n }

RECURSIVE SumTo(_, _)
SumTo(c, k) == IF k = 0 THEN 0 ELSE SumTo(c, k - 1) + c[k]

RunFirst(c, k) == SumTo(c, k - 1) + 1
RunLast(c, k) == SumTo(c, k)

\* the stripped texts of in[a..b] joined by single spaces, in order
RECURSIVE JoinStripped(_, _, _)
JoinStripped(in, a, b) ==
    IF a = b THEN Strip(in[a].text)
    ELSE JoinStripped(in, a, b - 1) \o <<" ">> \o Strip(in[b].text)

\* the divisions of `in` into runs whose joined texts are the texts of `out`
TextRuns(in, out) ==
    { c \in Compositions(Len(in)) :
        /\ Len(c) = Len(out)
        /\ \A k \in 1..Len(c) :
             out[k].text = JoinStripped(in, RunFirst(c, k), RunLast(c, k)) }

RECURSIVE TotalTextLen(_)
TotalTextLen(segs) ==
    IF segs = <<>> THEN 0 ELSE Len(Head(segs).text) + TotalTextLen(Tail(segs))

\* out is raw without its leading and trailing whitespace
IsStripOf(out, raw) ==
    /\ out = <<>> \/ (out[1] \notin Whitespace /\ out[Len(out)] \notin Whitespace)
    /\ \E a \in 0..Len(raw) :
         /\ a + Len(out) <= Len(raw)
         /\ \A j \in 1..Len(out) : raw[a + j] = out[j]
         /\ \A j \in 1..a : raw[j] \in Whitespace
         /\ \A j \in (a + Len(out) + 1)..Len(raw) : raw[j] \in Whitespace

----------------------------------------------------------------------------
(* Claims about merge_captions (checked under SpecMerge)                   *)

\* C1: at every step of the forward scan the next segment is merged into
\* the accumulator if and only if the accumulator's right-stripped text does
\* not end with '.', '?' or '!', gap = next.start - accumulator.end is
\* <= max_gap and len(accumulator.text + ' ' + next.text.strip()) is
\* <= max_chars (both thresholds inclusive); otherwise the accumulator is
\* flushed to the output and a new one is seeded from the next segment.
C1_MergeIffAllThree ==
    [][ (pc = "loop" /\ i < Len(segments)) =>
          LET next == segments[i + 1]
              acc == RStrip(current.text)
              noTerminal == acc = <<>> \/ acc[Len(acc)] \notin {".", "?", "!"}
              gapOk == next.start - current.end <= max_gap
              combined == current.text \o <<" ">> \o Strip(next.text)
              lenOk == Len(combined) <= max_chars
          IN IF noTerminal /\ gapOk /\ lenOk
             THEN /\ merged' = merged
                  /\ current' = [start |-> current.start, end |-> next.end,
                                 text |-> combined]
             ELSE /\ merged' = Append(merged, current)
                  /\ current' = [start |-> next.start, end |-> next.end,
                                 text |-> Strip(next.text)] ]_vars

\* a merge has just happened with the gap exactly max_gap and the combined
\* length exactly max_chars
C1_Witness ==
    /\ pc = "loop" /\ i = 2 /\ merged = <<>>
    /\ segments[2].start - segments[1].end = max_gap
    /\ Len(current.text) = max_chars
    /\ current.end = segments[2].end

\* C2: a segment whose text ends in '.', '?' or '!' is never merged with a
\* following segment: in the output no run of input segments continues past
\* such a segment, whether it seeded the accumulator or was merged into it.
C2_TerminalNeverMergedForward ==
    pc = "done" =>
      /\ TextRuns(segments, result) # {}
      /\ \A c \in TextRuns(segments, result) :
           \A k \in 1..Len(c) :
             \A j \in RunFirst(c, k)..(RunLast(c, k) - 1) :
               ~EndsWithTerminal(Strip(segments[j].text))

\* a segment ending in '.' was merged into the accumulator and the segment
\* after it, close enough in time and short enough, was still kept apart
C2_Witness ==
    /\ pc = "done" /\ Len(segments) = 3 /\ Len(result) = 2
    /\ result[1].text = <<"b", " ", "c", ".">>
    /\ segments[3].start - result[1].end <= max_gap
    /\ Len(result[1].text) + 1 + Len(Strip(segments[3].text)) <= max_chars

\* C3 as stated: merge_captions([]) = [] and merge_captions([s]) = [s], with
\* start, end and text unchanged.
C3_SingleUnchanged ==
    pc = "done" =>
      /\ (segments = <<>> => result = <<>>)
      /\ (Len(segments) = 1 => result = segments)

\* C3 as amended: merge_captions([]) = [], and merge_captions([s]) is one
\* segment with the start and end of s whose text is s's text without its
\* leading and trailing whitespace.
C3_SingleStripped ==
    pc = "done" =>
      /\ (segments = <<>> => result = <<>>)
      /\ (Len(segments) = 1 =>
            /\ Len(result) = 1
            /\ result[1].start = segments[1].start
            /\ result[1].end = segments[1].end
            /\ IsStripOf(result[1].text, segments[1].text))

\* a single segment whose text has surrounding whitespace has been merged
C3_Witness ==
    /\ pc = "done" /\ Len(segments) = 1
    /\ segments[1].text = <<"d", "?", " ">>
    /\ Len(result) = 1

\* C4: the output divides the input into consecutive runs covering every
\* input segment once, in order; each output text is the single-space join
\* of the stripped texts of its run; so the total output text length is at
\* most the total input text length plus the number of merges.
C4_OutputIsSpaceJoinedRuns ==
    pc = "done" =>
      /\ TextRuns(segments, result) # {}
      /\ TotalTextLen(result) <=
           TotalTextLen(segments) + (Len(segments) - Len(result))

\* three segments were merged into one output segment
C4_Witness ==
    /\ pc = "done" /\ Len(segments) = 3 /\ Len(result) = 1
    /\ segments[1].text # segments[2].text
    /\ Len(result[1].text) = 5

\* C5: every output segment has the start of the first input segment of its
\* run and the end of the last input segment merged into it (the last in
\* scan order, not the greatest end of the run).
C5_StartOfFirstEndOfLast ==
    pc = "done" =>
      \E c \in TextRuns(segments, result) :
        \A k \in 1..Len(c) :
          /\ result[k].start = segments[RunFirst(c, k)].start
          /\ result[k].end = segments[RunLast(c, k)].end

\* a run whose last segment ends before an earlier one of the run
C5_Witness ==
    /\ pc = "done" /\ Len(segments) = 2 /\ Len(result) = 1
    /\ segments[2].end < segments[1].end
    /\ result[1].end = segments[2].end

\* the call returned what the function gives for its arguments
MergeStepsAgreeWithFunction ==
    pc = "done" => result = merge_captions(segments, max_chars, max_gap)

\* every input text has a character that is not whitespace
AllTextsNonBlank == \A k \in 1..Len(segments) : Strip(segments[k].text) # <<>>

\* C13 as stated: merging is idempotent: for any segment list a second pass
\* over the merged list, with the same max_chars and max_gap, merges nothing
\* and changes no start, end or text.
C13_Idempotent ==
    pc = "done" => merge_captions(result, max_chars, max_gap) = result

\* C13 as amended: for any segment list in which every text has a character
\* that is not whitespace, a second pass over the merged list gives the
\* merged list again.
C13_IdempotentOnNonBlankTexts ==
    (pc = "done" /\ AllTextsNonBlank) =>
      merge_captions(result, max_chars, max_gap) = result

\* a first pass merged two of three segments; the two outputs are close
\* enough in time and the first has no terminal, and the second pass still
\* keeps them apart
C13_Witness ==
    /\ pc = "done" /\ AllTextsNonBlank
    /\ Len(segments) = 3 /\ Len(result) = 2
    /\ ~EndsWithTerminal(result[1].text)
    /\ result[2].start - result[1].end <= max_gap
    /\ merge_captions(result, max_chars, max_gap) = result

\* C14: every output segment formed from two or more input segments has a
\* text of at most max_chars characters, and every segment merged into it
\* starts at most max_gap after the end of the segment before it; the
\* output is never longer than the input and is not empty when the input
\* is not.
C14_MergedWithinLimits ==
    pc = "done" =>
      /\ Len(result) <= Len(segments)
      /\ segments # <<>> => result # <<>>
      /\ \E c \in TextRuns(segments, result) :
           \A k \in 1..Len(c) :
             c[k] >= 2 =>
               /\ Len(result[k].text) <= max_chars
               /\ \A j \in (RunFirst(c, k) + 1)..RunLast(c, k) :
                    segments[j].start - segments[j - 1].end <= max_gap

\* a text longer than max_chars is output, from one input segment alone
C14_LongPassedThrough ==
    /\ pc = "done"
    /\ \E k \in 1..Len(result) : Len(result[k].text) > max_chars

\* three segments became one output of exactly max_chars characters, the
\* second merged at a gap of exactly max_gap
C14_Witness ==
    /\ pc = "done" /\ Len(segments) = 3 /\ Len(result) = 1
    /\ Len(result[1].text) = max_chars
    /\ segments[2].start - segments[1].end = max_gap

----------------------------------------------------------------------------
(* The codec's specification and the claims checked under SpecTime         *)

TimeInit == TimeStart /\ MergeIdle /\ ParseIdle /\ TranslitIdle /\ MainIdle

TimeNext ==
    \/ FormatSrt /\ UNCHANGED <<mvars, pvars, xvars, nvars>>
    \/ FormatVtt /\ UNCHANGED <<mvars, pvars, xvars, nvars>>
    \/ ParseBack /\ UNCHANGED <<mvars, pvars, xvars, nvars>>

SpecTime == TimeInit /\ [][TimeNext]_vars

\* C6: for every non-negative time t, parsing the comma-style text of t
\* gives t back within one millisecond, also when the fraction rounds up
\* to 1000 ms.
C6_RoundTripWithinOneMs ==
    tpc = "parsed" =>
      /\ ~parsed.err
      /\ LET d == parsed.ms - seconds.whole * 1000   \* milliseconds past the whole second
         IN /\ d \in -1..1001
            /\ d * seconds.den - 1000 * seconds.num <= seconds.den
            /\ 1000 * seconds.num - d * seconds.den <= seconds.den

\* a time whose fraction rounds up to 1000 ms has been formatted and parsed
C6_Witness ==
    /\ tpc = "parsed"
    /\ 2 * 1000 * seconds.num >= 1999 * seconds.den
    /\ parsed.ms = (seconds.whole + 1) * 1000

\* C7: both formatters give zero-padded HH:MM:SS<sep>mmm: the hour field is
\* floor(seconds/3600) in at least two digits, the minute and second fields
\* are two digits in 00..59, the millisecond field is exactly three digits
\* equal to round(fraction * 1000), in 000..999; the two texts differ only
\* in the separator.
C7_FieldsOfFormat ==
    tpc \in {"vtt", "parsed"} =>
      LET hour == Decimal(seconds.whole \div 3600)
          hh == IF Len(hour) < 2 THEN <<"0">> \o hour ELSE hour
          n == Len(hh)
          ms == RoundHalfEven(1000 * seconds.num, seconds.den)
      IN /\ Len(srt_text) = n + 10
         /\ SubSeq(srt_text, 1, n) = hh
         /\ srt_text[n + 1] = ":" /\ srt_text[n + 4] = ":" /\ srt_text[n + 7] = ","
         /\ \A j \in {n + 2, n + 3, n + 5, n + 6, n + 8, n + 9, n + 10} : IsDigit(srt_text[j])
         /\ DigitsValue(SubSeq(srt_text, n + 2, n + 3)) = (seconds.whole \div 60) % 60
         /\ DigitsValue(SubSeq(srt_text, n + 5, n + 6)) = seconds.whole % 60
         /\ DigitsValue(SubSeq(srt_text, n + 8, n + 10)) = ms
         /\ ms <= 999
         /\ Len(vtt_text) = Len(srt_text)
         /\ \A j \in 1..Len(srt_text) :
              IF j = n + 7 THEN vtt_text[j] = "." ELSE vtt_text[j] = srt_text[j]

\* C7's scenario: 3661.4567 formats as "01:01:01,457"
C7_Scenario ==
    (tpc = "srt" /\ seconds = [whole |-> 3661, num |-> 4567, den |-> 10000]) =>
      srt_text = <<"0", "1", ":", "0", "1", ":", "0", "1", ",", "4", "5", "7">>

----------------------------------------------------------------------------
(* The parser's specification and the claims checked under SpecParse       *)

ParseInit == ParseStart /\ MergeIdle /\ TimeIdle /\ TranslitIdle /\ MainIdle

ParseNext ==
    \/ ParseSplit /\ UNCHANGED <<mvars, tvars, xvars, nvars>>
    \/ ParseBlock /\ UNCHANGED <<mvars, tvars, xvars, nvars>>
    \/ ParseReturn /\ UNCHANGED <<mvars, tvars, xvars, nvars>>

SpecParse == ParseInit /\ [][ParseNext]_vars

\* the lines of a block that are not empty or whitespace only
NonEmptyCount(b) == Cardinality({ j \in 1..Len(b) : b[j].words # <<>> })

\* the second line has the shape <token> --> <token>
HasShape(b) ==
    /\ Len(b) >= 2
    /\ ~b[2].lead
    /\ Len(b[2].words) = 3
    /\ b[2].words[2] = <<"-", "-", ">">>

\* a block the parser may not skip
Qualifies(b) == NonEmptyCount(b) >= 3 /\ HasShape(b)

CountOf(tok, ch) == Cardinality({ j \in 1..Len(tok) : tok[j] = ch })

\* tok is <int>:<int>:<int>,<int>, each field a run of digits (the documents
\* of the model hold no signed field)
WellFormedToken(tok) ==
    /\ CountOf(tok, ",") = 1 /\ CountOf(tok, ":") = 2
    /\ \A j \in 1..Len(tok) : tok[j] \in {",", ":"} \/ IsDigit(tok[j])
    /\ tok[1] \notin {",", ":"} /\ tok[Len(tok)] \notin {",", ":"}
    /\ \A j \in 1..(Len(tok) - 1) : ~(tok[j] \in {",", ":"} /\ tok[j + 1] \in {",", ":"})
    /\ \A j, k \in 1..Len(tok) : (tok[j] = ":" /\ tok[k] = ",") => j < k

Malformed(b) ==
    Qualifies(b) /\ (~WellFormedToken(b[2].words[1]) \/ ~WellFormedToken(b[2].words[3]))

\* milliseconds of a well-formed token, field by field
TokenMs(tok) ==
    LET c1 == CHOOSE j \in 1..Len(tok) : tok[j] = ":" /\ \A q \in 1..(j - 1) : tok[q] # ":"
        c2 == CHOOSE j \in (c1 + 1)..Len(tok) : tok[j] = ":"
        cm == CHOOSE j \in 1..Len(tok) : tok[j] = ","
    IN ((DigitsValue(SubSeq(tok, 1, c1 - 1)) * 60
          + DigitsValue(SubSeq(tok, c1 + 1, c2 - 1))) * 60
          + DigitsValue(SubSeq(tok, c2 + 1, cm - 1))) * 1000
         + DigitsValue(SubSeq(tok, cm + 1, Len(tok)))

\* one segment for each qualifying block of bs, in order
RECURSIVE ExpectedSegments(_)
ExpectedSegments(bs) ==
    IF bs = <<>> THEN <<>>
    ELSE LET b == Head(bs) IN
         (IF Qualifies(b)
          THEN << [start |-> TokenMs(b[2].words[1]), end |-> TokenMs(b[2].words[3]),
                   text |-> SubSeq(b, 3, Len(b))] >>
          ELSE <<>>) \o ExpectedSegments(Tail(bs))

\* C8: every block with fewer than 3 non-empty lines, or whose second line
\* has not the shape <token> --> <token>, is skipped without an error, and
\* the result is one segment for each remaining block, in document order; a
\* document in which no block qualifies yields the empty list.
C8_SkipsAndKeepsOrder ==
    /\ ppc = "raised" => \E k \in 1..Len(doc_blocks) : Qualifies(doc_blocks[k])
    /\ ppc = "done" => parse_result = ExpectedSegments(doc_blocks)
    /\ (ppc \notin {"read", "loop"} /\ \A k \in 1..Len(doc_blocks) : ~Qualifies(doc_blocks[k]))
         => (ppc = "done" /\ parse_result = <<>>)

\* a two-block document whose first block, of two lines, was skipped and
\* whose second block gave the only segment
C8_Witness ==
    /\ ppc = "done" /\ Len(doc_blocks) = 2
    /\ ~Qualifies(doc_blocks[1]) /\ NonEmptyCount(doc_blocks[1]) = 2
    /\ Len(parse_result) = 1
    /\ parse_result[1].start = 1200

\* C9: the only error parse_srt_file raises is a malformed timestamp: a
\* block of at least 3 lines whose second line has the shape but a token
\* that is not <int>:<int>:<int>,<int> makes the whole call fail, with no
\* list returned, and nothing else does.
C9_OnlyMalformedTimestampRaises ==
    /\ ppc = "raised" =>
         /\ parse_result = <<>>
         /\ \E k \in 1..Len(doc_blocks) : Malformed(doc_blocks[k])
    /\ ppc = "done" => \A k \in 1..Len(doc_blocks) : ~Malformed(doc_blocks[k])

\* the call failed on the second block after a segment was taken from the first
C9_Witness ==
    /\ ppc = "raised" /\ Len(doc_blocks) = 2
    /\ Len(parsed_segments) = 1
    /\ Malformed(doc_blocks[2])
    /\ parse_result = <<>>

----------------------------------------------------------------------------
(* The selector's specification and the claims checked under SpecTranslit  *)

TranslitInit == TranslitStart /\ MergeIdle /\ TimeIdle /\ ParseIdle /\ MainIdle

TranslitNext ==
    \/ TranslitImport /\ UNCHANGED <<mvars, tvars, pvars, nvars>>
    \/ TranslitTry /\ UNCHANGED <<mvars, tvars, pvars, nvars>>
    \/ TranslitReturn /\ UNCHANGED <<mvars, tvars, pvars, nvars>>

SpecTranslit == TranslitInit /\ [][TranslitNext]_vars

\* the number of characters of t in U+0900..U+097F
Score(t) == Cardinality({ j \in 1..Len(t) : t[j] \in 2304..2431 })

\* the schemes whose conversion returns a text with a destination character
Scoring == { k \in 1..3 : ~convert[k].raises /\ Score(convert[k].out) > 0 }

\* C10: the call never raises; a scheme whose conversion fails is skipped
\* and the later schemes are still tried; when every scheme fails, when no
\* result has a destination-script character, or when the library is not
\* installed, the input text is returned unchanged.
C10_NeverRaisesFallsBack ==
    /\ xpc # "raised"
    /\ xpc = "done" =>
         /\ (~installed \/ Scoring = {}) => returned = input_text
         /\ (installed /\ Scoring # {}) => \E k \in Scoring : returned = convert[k].out

\* the first two conversions raised and the third, still tried, was returned
C10_Witness ==
    /\ xpc = "done" /\ installed
    /\ convert[1].raises /\ convert[2].raises /\ ~convert[3].raises
    /\ returned = convert[3].out /\ returned # input_text

\* every conversion raised and the input came back
C10_WitnessAllFail ==
    /\ xpc = "done" /\ installed
    /\ \A k \in 1..3 : convert[k].raises
    /\ returned = input_text /\ input_text # <<>>

\* C11: when some scheme converts without failing and scores above 0, the
\* call returns the result of the first scheme, in the order of the list,
\* whose score is the greatest among the schemes that did not fail: a later
\* scheme with an equal score does not replace an earlier one.
C11_FirstOfGreatestScore ==
    (xpc = "done" /\ installed /\ Scoring # {}) =>
      \E k \in Scoring :
        /\ returned = convert[k].out
        /\ \A j \in 1..3 : ~convert[j].raises => Score(convert[j].out) <= Score(convert[k].out)
        /\ \A j \in 1..(k - 1) : ~convert[j].raises => Score(convert[j].out) < Score(convert[k].out)

\* two schemes gave different texts of the same, greatest score, after a
\* scheme of a smaller score, and the earlier of the two was returned
C11_Witness ==
    /\ xpc = "done" /\ installed
    /\ \A j \in 1..3 : ~convert[j].raises
    /\ Score(convert[1].out) = 1
    /\ Score(convert[2].out) = 2 /\ Score(convert[3].out) = 2
    /\ convert[2].out # convert[3].out
    /\ returned = convert[2].out

----------------------------------------------------------------------------
(* main's specification and the claim checked under SpecMain               *)

MainInit == MainStart /\ MergeIdle /\ TimeIdle /\ ParseIdle /\ TranslitIdle

MainNext ==
    \/ MainMergeCall /\ UNCHANGED <<mvars, tvars, pvars, xvars>>
    \/ MainMergeSkip /\ UNCHANGED <<mvars, tvars, pvars, xvars>>
    \/ MainMergeIter /\ UNCHANGED <<mvars, tvars, pvars, xvars>>
    \/ MainMergeReturn /\ UNCHANGED <<mvars, tvars, pvars, xvars>>
    \/ MainTransliterate /\ UNCHANGED <<mvars, tvars, pvars, xvars>>
    \/ MainDevSkip /\ UNCHANGED <<mvars, tvars, pvars, xvars>>

SpecMain == MainInit /\ [][MainNext]_vars

\* the dicts a list of names stands for, by value
Deref(names) == [k \in 1..Len(names) |-> heap[names[k]]]

\* the list merge_captions returned to main is what the function gives
MainMergeAgreesWithFunction ==
    (mpc \in {"dev", "done"} /\ args_merge_captions) =>
      Deref(merged_segments) = merge_captions(loaded, DefaultMaxChars, DefaultMaxGap)

\* C12: merge_captions and transliterate_segments leave their input
\* unchanged: at every point from the parse on, main's list has the length
\* it was loaded with and each of its segments has the start, end and text
\* it was loaded with, so transliterate_segments reads the original parse
\* whether or not merge_captions ran first.
C12_InputsUnchanged ==
    mpc # "idle" =>
      /\ Len(main_segments) = Len(loaded)
      /\ Deref(main_segments) = loaded
      /\ (mpc = "done" /\ args_devanagari) => dev_seen = loaded

\* both pipelines ran: the merge assigned into its accumulator (two
\* segments became one) and a text was converted, and the parse is intact
C12_Witness ==
    /\ mpc = "done" /\ args_merge_captions /\ args_devanagari
    /\ Len(loaded) = 2 /\ Len(merged_segments) = 1
    /\ heap[merged_segments[1]].text # loaded[1].text
    /\ heap[dev_segments[1]].text # loaded[1].text
    /\ dev_seen = loaded

====
